---- MODULE Spec2Model ----
(***************************************************************************)
(* dangerzone/util.py: the Stopwatch class and nonblocking_read().         *)
(*                                                                         *)
(* One invocation of nonblocking_read(fd, size, timeout) runs against a    *)
(* descriptor whose writer makes bytes available over time and may close   *)
(* it, and against a monotonic clock that advances between the statements *)
(* of the call.  Time is counted in integer ticks.                         *)
(***************************************************************************)
EXTENDS Integers, Sequences, FiniteSets, TLC

\* ---- bounds of the model --------------------------------------------------
MaxSize == 3        \* largest size argument tried
MaxTimeout == 2     \* largest timeout argument tried (ticks)
MaxStream == 3      \* number of bytes the writer can ever produce
MaxStart == 1       \* latest clock reading at which the call is made
MaxLag == 2         \* how far past the deadline the clock is followed

MaxClock == MaxStart + MaxTimeout + MaxLag

\* bounds of the two-thread model
ConcMaxSize == 2    \* largest size argument of a concurrent call
ConcMaxTimeout == 1 \* largest timeout argument of a concurrent call
ConcMaxStream == 1  \* bytes each descriptor's writer can produce

Threads == {1, 2}
ConcMaxClock == MaxStart + ConcMaxTimeout + 1

VARIABLES
    now,            \* time.monotonic()
    blocking,       \* os.get_blocking(fd)
    produced,       \* bytes of the stream the writer has made available
    eof,            \* the writer has closed its end
    consumed,       \* bytes of the stream taken by os.read
    pc,             \* position of the call
    size,           \* local `size` (argument, decremented at line 190)
    timeout,        \* local `timeout`
    buf,            \* local `buf`
    chunk,          \* local `chunk` (last os.read result)
    sw,             \* local `sw`, a Stopwatch
    sel,            \* local `sel`: "none", "open" or "closed"
    wake,           \* clock reading at which the pending select() gives up
    err,            \* exception leaving the call
    result,         \* value returned by the call
    size0,          \* history: the caller's size argument
    callTime,       \* history: clock reading when the call was made
    availAtCall,    \* history: bytes readable when the call was made
    consumedAtCall, \* history: stream position when the call was made
    polls,          \* history: number of sel.select calls
    reads,          \* history: number of os.read calls
    lastRead,       \* history: "none", "data", "eof" or "error"
    asked,          \* history: byte count passed to the last os.read
    readErr,        \* history: errno os.read failed with, 0 when it has not
    started,        \* history: start() or scope entry was performed on sw
    q,              \* outcome of the last elapsed / remaining query on sw
    inv             \* concurrent invocations: thread -> locals and descriptor

vars == <<now, blocking, produced, eof, consumed, pc, size, timeout, buf,
          chunk, sw, sel, wake, err, result, size0, callTime, availAtCall,
          consumedAtCall, polls, reads, lastRead, asked, readErr, started, q,
          inv>>

fdVars == <<produced, eof, consumed>>
histVars == <<size0, callTime, availAtCall, consumedAtCall>>

\* ---- Optional[...] values -------------------------------------------------
None == <<>>
Some(v) == <<v>>
IsNone(x) == x = None
Val(x) == x[1]
\* Python truthiness of an Optional[float]: None and 0.0 are both falsy
Truthy(x) == ~IsNone(x) /\ Val(x) # 0

\* ---- outcome of evaluating a property -------------------------------------
Ret(v) == [ok |-> TRUE, val |-> v, exc |-> "none"]
Raise(e) == [ok |-> FALSE, val |-> 0, exc |-> e]

\* ---- class Stopwatch ------------------------------------------------------
Stopwatch(t) == [timeout |-> t, start_time |-> None, end_time |-> None]

NoStopwatch == Stopwatch(None)

\* the clock reading taken as the elapsed time, start_time not subtracted
elapsed_absolute(s, t) ==
    IF IsNone(s.start_time)
    THEN Raise("RuntimeError")
    ELSE Ret(IF Truthy(s.end_time) THEN Val(s.end_time) ELSE t)

\* a stopwatch that was not started measured from clock reading 0
elapsed_defaultStart(s, t) ==
    Ret((IF Truthy(s.end_time) THEN Val(s.end_time) ELSE t)
        - (IF IsNone(s.start_time) THEN 0 ELSE Val(s.start_time)))

elapsed(s, t) ==
    IF IsNone(s.start_time)
    THEN Raise("RuntimeError")
    ELSE Ret((IF Truthy(s.end_time) THEN Val(s.end_time) ELSE t)
             - Val(s.start_time))

\* the budget taken as if no time had passed since start()
remaining_noElapsed(s, t) ==
    IF IsNone(s.timeout)
    THEN Raise("RuntimeError")
    ELSE Ret(Val(s.timeout))

\* the deadline taken as passed as soon as nothing remains
remaining_raiseAtZero(s, t) ==
    IF IsNone(s.timeout)
    THEN Raise("RuntimeError")
    ELSE LET e == elapsed(s, t)
         IN IF ~e.ok
            THEN e
            ELSE LET r == Val(s.timeout) - e.val
                 IN IF r <= 0 THEN Raise("TimeoutError") ELSE Ret(r)

\* the budget returned even when it is negative
remaining_noRaise(s, t) ==
    IF IsNone(s.timeout)
    THEN Raise("RuntimeError")
    ELSE LET e == elapsed(s, t)
         IN IF ~e.ok THEN e ELSE Ret(Val(s.timeout) - e.val)

remaining(s, t) ==
    IF IsNone(s.timeout)
    THEN Raise("RuntimeError")
    ELSE LET e == elapsed(s, t)
         IN IF ~e.ok
            THEN e
            ELSE LET r == Val(s.timeout) - e.val
                 IN IF r < 0 THEN Raise("TimeoutError") ELSE Ret(r)

\* lines 124-126
enter(s, t) == [s EXCEPT !.start_time = Some(t)]

\* lines 128-129
start(s, t) == enter(s, t)

\* lines 131-132
exit(s, t) == [s EXCEPT !.end_time = Some(t)]

\* lines 134-135
stop(s, t) == exit(s, t)

\* a query on stopwatch s at clock reading t: what was asked, of which
\* stopwatch state, when, whether start had been performed, and the outcome
Query(op, s, t, st, r) ==
    [op |-> op, sw |-> s, at |-> t, started |-> st,
     ok |-> r.ok, val |-> r.val, exc |-> r.exc]

NoQuery == Query("none", NoStopwatch, 0, FALSE, Raise("none"))

\* ---- the descriptor -------------------------------------------------------
\* byte i of the stream has value i, so order and position are observable
stream == [i \in 1..MaxStream |-> i]

avail == produced - consumed

\* what the selector reports for EVENT_READ: data buffered, or end-of-stream
Readable == avail > 0 \/ eof

Min(a, b) == IF a < b THEN a ELSE b

\* os.read(fd, n) on a readable non-blocking descriptor: the buffered bytes up
\* to n of them, the empty sequence at end-of-stream
os_read(n) == SubSeq(stream, consumed + 1, consumed + Min(avail, n))

\* the same for a descriptor given by its stream and its two positions
fd_read(str, prod, cons, n) ==
    SubSeq(str, cons + 1, cons + Min(prod - cons, n))

\* ---- exceptions -----------------------------------------------------------
\* kind, the source line of the raise, and the numbers the message reports
NoErr == [kind |-> "none", line |-> 0, msg |-> <<>>]
Exc(k, l, m) == [kind |-> k, line |-> l, msg |-> m]

Finished == {"returned", "raised"}

\* ---- one of several invocations, each in its own thread ------------------
\* the locals of the invocation (lines 152-198) and the state of the
\* descriptor it was given; thread i reads descriptor i
NotCalled ==
    [pc |-> "idle", size |-> 0, size0 |-> 0, timeout |-> 0, buf |-> <<>>,
     sw |-> NoStopwatch, sel |-> [state |-> "none", fds |-> {}], wake |-> 0,
     err |-> NoErr, result |-> <<>>, callTime |-> 0,
     produced |-> 0, eof |-> FALSE, consumed |-> 0]

\* byte k of descriptor d is <<d, k>>
cstream(d) == [k \in 1..ConcMaxStream |-> <<d, k>>]

\* ---- nonblocking_read -----------------------------------------------------
\* size checked with < instead of <=
Validate_sizeNegOnly(blk, sz, to) ==
    IF blk THEN Exc("ValueError", 157, <<>>)
    ELSE IF sz < 0 THEN Exc("ValueError", 159, <<sz>>)
    ELSE IF to <= 0 THEN Exc("ValueError", 161, <<to>>)
    ELSE NoErr

\* lines 156-161: the first failing check, or NoErr
Validate(blk, sz, to) ==
    IF blk THEN Exc("ValueError", 157, <<>>)
    ELSE IF sz <= 0 THEN Exc("ValueError", 159, <<sz>>)
    ELSE IF to <= 0 THEN Exc("ValueError", 161, <<to>>)
    ELSE NoErr

\* line 181: f"Timeout expired while reading {len(buf)}/{size} bytes"
TimeoutMsg(b, sz) == <<Len(b), sz>>

\* lines 117-120: the message is a plain literal, it reports no number
SurpassedMsg == <<>>

\* the whole timeout handed to every select
PollBound_fullTimeout(s, t) == Ret(Val(s.timeout))

\* line 179: the bound handed to sel.select
PollBound(s, t) == remaining(s, t)

\* the caller's size asked of every os.read
ReadCount_original(sz) == size0

\* one byte more than wanted asked of os.read
ReadCount_plusOne(sz) == sz + 1

\* line 183: the byte count asked of os.read
ReadCount(sz) == sz

\* the loop left one byte early
LoopEnds_offByOne(c, sz) == c = <<>> \/ sz <= 1

\* the empty chunk not taken as end-of-stream
LoopEnds_noEof(c, sz) == sz = 0

\* the bytes accumulated so far taken off, not the chunk just read
NextSize_cumulative(sz, b, c) ==
    IF c = <<>> THEN sz ELSE sz - Len(b \o c)

\* lines 185-190: `size` after a chunk c was appended to b; EOF leaves it alone
NextSize(sz, b, c) == IF c = <<>> THEN sz ELSE sz - Len(c)

\* errno values os.read can fail with (EIO, EAGAIN)
OSErrnos == {5, 11}

\* lines 185 and 193: the loop ends on an empty chunk or when nothing is wanted
LoopEnds(c, sz) == c = <<>> \/ sz = 0

Init ==
    /\ now = 0
    /\ blocking \in BOOLEAN
    /\ produced = 0
    /\ eof = FALSE
    /\ consumed = 0
    /\ pc = "idle"
    /\ size = 0
    /\ timeout = 0
    /\ buf = <<>>
    /\ chunk = <<>>
    /\ sw = NoStopwatch
    /\ sel = "none"
    /\ wake = 0
    /\ err = NoErr
    /\ result = <<>>
    /\ size0 = 0
    /\ callTime = 0
    /\ availAtCall = 0
    /\ consumedAtCall = 0
    /\ polls = 0
    /\ reads = 0
    /\ lastRead = "none"
    /\ asked = 0
    /\ readErr = 0
    /\ started = FALSE
    /\ q = NoQuery
    /\ inv = [i \in Threads |-> NotCalled]

\* lines 152-170: validation, registration, buf, stopwatch
Call ==
    /\ pc = "idle"
    /\ \E sz \in -1..MaxSize, to \in -1..MaxTimeout :
         LET v == Validate(blocking, sz, to)
         IN /\ size' = sz
            /\ timeout' = to
            /\ size0' = sz
            /\ callTime' = now
            /\ availAtCall' = avail
            /\ consumedAtCall' = consumed
            /\ IF v.kind # "none"
               THEN /\ pc' = "raised"
                    /\ err' = v
                    /\ UNCHANGED <<sel, sw, started>>
               ELSE /\ pc' = "loop"
                    /\ sel' = "open"
                    /\ sw' = start(Stopwatch(Some(to)), now)
                    /\ started' = TRUE
                    /\ UNCHANGED err
    /\ buf' = <<>>
    /\ UNCHANGED <<now, blocking, fdVars, chunk, wake, result, polls, reads,
                   lastRead, asked, readErr, q, inv>>

\* line 179, argument evaluation: sw.remaining raises, or select is entered
Poll ==
    /\ pc = "loop"
    /\ LET r == PollBound(sw, now)
       IN IF r.ok
          THEN /\ pc' = "select"
               /\ wake' = now + r.val
               /\ polls' = polls + 1
               /\ UNCHANGED err
          ELSE /\ pc' = "raised"
               /\ err' = Exc(r.exc, 118, SurpassedMsg)
               /\ UNCHANGED <<wake, polls>>
    /\ UNCHANGED <<now, blocking, fdVars, size, timeout, buf, chunk, sw, sel,
                   result, histVars, reads,
                   lastRead, asked, readErr, started, q, inv>>

\* line 179: select returns the ready descriptor
SelectReady ==
    /\ pc = "select"
    /\ Readable
    /\ pc' = "read"
    /\ UNCHANGED <<now, blocking, fdVars, size, timeout, buf, chunk, sw, sel,
                   wake, err, result, histVars, polls, reads,
                   lastRead, asked, readErr, started, q, inv>>

\* lines 179-181: select returns [] once its bound has run out
SelectEmpty ==
    /\ pc = "select"
    /\ ~Readable
    /\ now >= wake
    /\ pc' = "raised"
    /\ err' = Exc("TimeoutError", 181, TimeoutMsg(buf, size))
    /\ UNCHANGED <<now, blocking, fdVars, size, timeout, buf, chunk, sw, sel,
                   wake, result, histVars, polls, reads,
                   lastRead, asked, readErr, started, q, inv>>

\* lines 183-198: one read, then EOF / done / next iteration
Read ==
    /\ pc = "read"
    /\ reads' = reads + 1
    /\ asked' = ReadCount(size)
    /\ LET c == os_read(ReadCount(size))
           nsize == NextSize(size, buf, c)
       IN /\ chunk' = c
          /\ lastRead' = IF c = <<>> THEN "eof" ELSE "data"
          /\ buf' = buf \o c
          /\ consumed' = consumed + Len(c)
          /\ size' = nsize
          /\ IF c # <<>> /\ nsize < 0
             THEN /\ pc' = "raised"
                  /\ err' = Exc("AssertionError", 192, <<>>)
                  /\ UNCHANGED <<sel, result>>
             ELSE IF LoopEnds(c, nsize)
             THEN /\ sel' = "closed"
                  /\ result' = buf \o c
                  /\ pc' = "returned"
                  /\ UNCHANGED err
             ELSE /\ pc' = "loop"
                  /\ UNCHANGED <<sel, result, err>>
    /\ UNCHANGED <<now, blocking, produced, eof, timeout, sw, wake,
                   histVars, polls, readErr, started, q, inv>>

\* the OSError swallowed and the loop entered again
ReadFails_retry ==
    /\ pc = "read"
    /\ reads' = reads + 1
    /\ asked' = ReadCount(size)
    /\ pc' = "loop"
    /\ lastRead' = "error"
    /\ \E e \in OSErrnos : readErr' = e
    /\ UNCHANGED <<now, blocking, fdVars, size, timeout, buf, chunk, sw, sel,
                   wake, err, result, histVars, polls, started, q, inv>>

\* line 183: os.read raises an OSError, which leaves the call as it is
ReadFails ==
    /\ pc = "read"
    /\ reads' = reads + 1
    /\ asked' = ReadCount(size)
    /\ pc' = "raised"
    /\ lastRead' = "error"
    /\ \E e \in OSErrnos :
         /\ readErr' = e
         /\ err' = Exc("OSError", 183, <<e>>)
    /\ UNCHANGED <<now, blocking, fdVars, size, timeout, buf, chunk, sw, sel,
                   wake, result, histVars, polls, started, q, inv>>

\* ---- environment ----------------------------------------------------------
\* the writer makes more bytes available
Arrive ==
    /\ pc \notin Finished
    /\ ~eof
    /\ \E k \in 1..(MaxStream - produced) : produced' = produced + k
    /\ UNCHANGED <<now, blocking, eof, consumed, pc, size, timeout, buf,
                   chunk, sw, sel, wake, err, result, histVars, polls, reads,
                   lastRead, asked, readErr, started, q, inv>>

\* the writer closes its end
Close ==
    /\ pc \notin Finished
    /\ ~eof
    /\ eof' = TRUE
    /\ UNCHANGED <<now, blocking, produced, consumed, pc, size, timeout, buf,
                   chunk, sw, sel, wake, err, result, histVars, polls, reads,
                   lastRead, asked, readErr, started, q, inv>>

\* the clock advances; a select that can return does so without delay
Tick ==
    /\ pc \notin Finished
    /\ now < MaxClock
    /\ pc = "idle" => now < MaxStart
    /\ pc = "select" => (~Readable /\ now < wake)
    /\ now' = now + 1
    /\ UNCHANGED <<blocking, fdVars, pc, size, timeout, buf, chunk, sw, sel,
                   wake, err, result, histVars, polls, reads,
                   lastRead, asked, readErr, started, q, inv>>

CallStep == Call \/ Poll \/ SelectReady \/ SelectEmpty \/ Read \/ ReadFails

Next == Call \/ Poll \/ SelectReady \/ SelectEmpty \/ Read \/ ReadFails
        \/ Arrive \/ Close \/ Tick

Spec == Init /\ [][Next]_vars

\* the thread keeps running and the clock keeps advancing
LiveSpec == Spec /\ WF_vars(CallStep) /\ WF_vars(Tick)

\* ---- a Stopwatch used on its own ------------------------------------------
\* Stopwatch() or Stopwatch(timeout) has been constructed; no call is running
SwInit ==
    /\ now = 0
    /\ blocking \in BOOLEAN
    /\ produced = 0
    /\ eof = FALSE
    /\ consumed = 0
    /\ pc = "idle"
    /\ size = 0
    /\ timeout = 0
    /\ buf = <<>>
    /\ chunk = <<>>
    /\ sw \in {Stopwatch(None)} \cup {Stopwatch(Some(t)) : t \in 1..MaxTimeout}
    /\ sel = "none"
    /\ wake = 0
    /\ err = NoErr
    /\ result = <<>>
    /\ size0 = 0
    /\ callTime = 0
    /\ availAtCall = 0
    /\ consumedAtCall = 0
    /\ polls = 0
    /\ reads = 0
    /\ lastRead = "none"
    /\ asked = 0
    /\ readErr = 0
    /\ started = FALSE
    /\ q = NoQuery
    /\ inv = [i \in Threads |-> NotCalled]

callVars == <<blocking, fdVars, pc, size, timeout, buf, chunk, sel, wake,
              err, result, histVars, polls, reads, lastRead, asked, readErr>>

\* lines 128-129: sw.start()
SwStart ==
    /\ pc = "idle"
    /\ sw' = start(sw, now)
    /\ started' = TRUE
    /\ UNCHANGED <<now, q, inv, callVars>>

\* lines 124-126: `with sw:` is entered
SwEnter ==
    /\ pc = "idle"
    /\ sw' = enter(sw, now)
    /\ started' = TRUE
    /\ UNCHANGED <<now, q, inv, callVars>>

\* lines 134-135: sw.stop()
SwStop ==
    /\ pc = "idle"
    /\ sw' = stop(sw, now)
    /\ UNCHANGED <<now, started, q, inv, callVars>>

\* lines 131-132: the `with sw:` block is left
SwExit ==
    /\ pc = "idle"
    /\ sw' = exit(sw, now)
    /\ UNCHANGED <<now, started, q, inv, callVars>>

\* lines 102-107: sw.elapsed is read
SwElapsed ==
    /\ pc = "idle"
    /\ q' = Query("elapsed", sw, now, started, elapsed(sw, now))
    /\ UNCHANGED <<now, sw, started, inv, callVars>>

\* lines 109-122: sw.remaining is read
SwRemaining ==
    /\ pc = "idle"
    /\ q' = Query("remaining", sw, now, started, remaining(sw, now))
    /\ UNCHANGED <<now, sw, started, inv, callVars>>

\* the monotonic clock advances
SwTick ==
    /\ pc = "idle"
    /\ now < MaxClock
    /\ now' = now + 1
    /\ UNCHANGED <<sw, started, q, inv, callVars>>

SwNext == SwStart \/ SwEnter \/ SwStop \/ SwExit \/ SwElapsed \/ SwRemaining
          \/ SwTick

SwSpec == SwInit /\ [][SwNext]_vars

\* ---- two invocations in two threads, on two descriptors -------------------
flatVars == <<sw, started, q, callVars>>

\* one stopwatch, that of the first invocation, consulted by every thread
SwOf_shared(i) == inv[1].sw

\* line 169: the stopwatch thread i consults is the local `sw` of its call
SwOf(i) == inv[i].sw

\* lines 165-166: a selector made by the call, with the call's fd registered
NewSelector(i) == [state |-> "open", fds |-> {i}]

CReadable(d) == inv[d].produced - inv[d].consumed > 0 \/ inv[d].eof

\* what select on the selector of thread i reports
CEvents(i) == {d \in inv[i].sel.fds : CReadable(d)}

\* lines 152-170
CCall(i) ==
    /\ inv[i].pc = "idle"
    /\ \E sz \in 1..ConcMaxSize, to \in 1..ConcMaxTimeout :
         LET v == Validate(FALSE, sz, to)
         IN inv' = [inv EXCEPT ![i] =
                IF v.kind # "none"
                THEN [@ EXCEPT !.pc = "raised", !.err = v, !.size = sz,
                               !.size0 = sz, !.timeout = to,
                               !.callTime = now]
                ELSE [@ EXCEPT !.pc = "loop", !.size = sz, !.size0 = sz,
                               !.timeout = to, !.callTime = now,
                               !.buf = <<>>, !.sel = NewSelector(i),
                               !.sw = start(Stopwatch(Some(to)), now)]]
    /\ UNCHANGED <<now, flatVars>>

\* line 179, argument evaluation
CPoll(i) ==
    /\ inv[i].pc = "loop"
    /\ LET r == PollBound(SwOf(i), now)
       IN inv' = [inv EXCEPT ![i] =
              IF r.ok
              THEN [@ EXCEPT !.pc = "select", !.wake = now + r.val]
              ELSE [@ EXCEPT !.pc = "raised",
                             !.err = Exc(r.exc, 118, SurpassedMsg)]]
    /\ UNCHANGED <<now, flatVars>>

\* line 179: select returns an event
CSelectReady(i) ==
    /\ inv[i].pc = "select"
    /\ CEvents(i) # {}
    /\ inv' = [inv EXCEPT ![i].pc = "read"]
    /\ UNCHANGED <<now, flatVars>>

\* lines 179-181: select returns []
CSelectEmpty(i) ==
    /\ inv[i].pc = "select"
    /\ CEvents(i) = {}
    /\ now >= inv[i].wake
    /\ inv' = [inv EXCEPT ![i] =
           [@ EXCEPT !.pc = "raised",
                     !.err = Exc("TimeoutError", 181,
                                 TimeoutMsg(inv[i].buf, inv[i].size))]]
    /\ UNCHANGED <<now, flatVars>>

\* lines 183-198; os.read on a descriptor with nothing to read fails (EAGAIN)
CRead(i) ==
    /\ inv[i].pc = "read"
    /\ LET me == inv[i]
           c == fd_read(cstream(i), me.produced, me.consumed,
                        ReadCount(me.size))
           nsize == NextSize(me.size, me.buf, c)
       IN inv' = [inv EXCEPT ![i] =
              IF ~CReadable(i)
              THEN [@ EXCEPT !.pc = "raised",
                             !.err = Exc("OSError", 183, <<11>>)]
              ELSE IF c # <<>> /\ nsize < 0
              THEN [@ EXCEPT !.pc = "raised", !.buf = me.buf \o c,
                             !.consumed = me.consumed + Len(c),
                             !.size = nsize,
                             !.err = Exc("AssertionError", 192, <<>>)]
              ELSE IF LoopEnds(c, nsize)
              THEN [@ EXCEPT !.pc = "returned", !.buf = me.buf \o c,
                             !.consumed = me.consumed + Len(c),
                             !.size = nsize,
                             !.sel = [state |-> "closed", fds |-> {}],
                             !.result = me.buf \o c]
              ELSE [@ EXCEPT !.pc = "loop", !.buf = me.buf \o c,
                             !.consumed = me.consumed + Len(c),
                             !.size = nsize]]
    /\ UNCHANGED <<now, flatVars>>

\* line 183: os.read raises an OSError
CReadFails(i) ==
    /\ inv[i].pc = "read"
    /\ \E e \in OSErrnos :
         inv' = [inv EXCEPT ![i] =
             [@ EXCEPT !.pc = "raised", !.err = Exc("OSError", 183, <<e>>)]]
    /\ UNCHANGED <<now, flatVars>>

\* the writer of descriptor d makes more bytes available
CArrive(d) ==
    /\ inv[d].pc \notin Finished
    /\ ~inv[d].eof
    /\ \E k \in 1..(ConcMaxStream - inv[d].produced) :
         inv' = [inv EXCEPT ![d].produced = @ + k]
    /\ UNCHANGED <<now, flatVars>>

\* the writer of descriptor d closes its end
CClose(d) ==
    /\ inv[d].pc \notin Finished
    /\ ~inv[d].eof
    /\ inv' = [inv EXCEPT ![d].eof = TRUE]
    /\ UNCHANGED <<now, flatVars>>

\* the clock both threads read advances
CTick ==
    /\ \E i \in Threads : inv[i].pc \notin Finished
    /\ now < ConcMaxClock
    /\ \A i \in Threads :
         /\ inv[i].pc = "idle" => now < MaxStart
         /\ inv[i].pc = "select" => (CEvents(i) = {} /\ now < inv[i].wake)
    /\ now' = now + 1
    /\ UNCHANGED <<inv, flatVars>>

ConcInit == Init /\ blocking = FALSE

ConcNext ==
    \/ \E i \in Threads : CCall(i)
    \/ \E i \in Threads : CPoll(i)
    \/ \E i \in Threads : CSelectReady(i)
    \/ \E i \in Threads : CSelectEmpty(i)
    \/ \E i \in Threads : CRead(i)
    \/ \E i \in Threads : CReadFails(i)
    \/ \E d \in Threads : CArrive(d)
    \/ \E d \in Threads : CClose(d)
    \/ CTick

ConcSpec == ConcInit /\ [][ConcNext]_vars

\* ---- properties -----------------------------------------------------------
Entered == sel # "none"            \* the call passed argument validation
StartTime == Val(sw.start_time)
Deadline == StartTime + timeout
TimedOut == pc = "raised" /\ err.kind = "TimeoutError"

\* C1: every call that passed validation has released its selector when it
\* has exited, whether it returned or raised.
C1_SelectorReleased ==
    (pc \in Finished /\ Entered) => sel = "closed"

\* C2: the timeout raised on an empty poll reports the bytes accumulated so
\* far and the size the caller asked for.
C2_TimeoutReportsRequested ==
    (pc = "raised" /\ err.line = 181) => err.msg = <<Len(buf), size0>>

\* C3: a returned value is the accumulated buffer and either has exactly the
\* requested length or ends with a zero-byte read; fewer bytes without
\* end-of-stream are never returned.
C3_ReturnFullOrEof ==
    pc = "returned" =>
        /\ result = buf
        /\ Len(result) = size0 \/ lastRead = "eof"
        /\ Len(result) <= size0

C3_Witness ==
    /\ pc = "returned"
    /\ Len(result) = size0
    /\ reads >= 2
    /\ lastRead = "data"

C5_InvalidArgsBeforeIO ==
    (pc # "idle" /\ (blocking \/ size0 <= 0 \/ timeout <= 0)) =>
        /\ pc = "raised"
        /\ err.kind = "ValueError"
        /\ sel = "none"
        /\ polls = 0
        /\ reads = 0
        /\ sw = NoStopwatch
        /\ consumed = consumedAtCall
        /\ now = callTime

C5_Witness ==
    /\ pc = "raised"
    /\ err.kind = "ValueError"
    /\ ~blocking
    /\ size0 = 0
    /\ timeout > 0
    /\ avail > 0

\* C6: a call that was made exits, and while it is suspended in select the
\* clock has not passed the moment the select gives up, which is never later
\* than the deadline.
C6_Terminates ==
    /\ (pc # "idle") ~> (pc \in Finished)
    /\ [](pc = "select" => (now <= wake /\ wake <= Deadline))

C6_Witness ==
    /\ pc = "raised"
    /\ err.line = 181
    /\ Len(buf) > 0
    /\ eof = FALSE

\* C7: every select gives up at start time + timeout, the stopwatch is not
\* touched once started, and a loop iteration that begins after the deadline
\* raises TimeoutError even when bytes were read.
C7_SingleDeadline ==
    /\ [](pc = "select" => wake = callTime + timeout)
    /\ [][Entered => sw' = sw]_vars
    /\ [][(pc = "loop" /\ now - callTime > timeout /\ pc' # pc)
             => (pc' = "raised" /\ err'.kind = "TimeoutError")]_vars

C7_Witness ==
    /\ TimedOut
    /\ Len(buf) > 0
    /\ polls >= 2
    /\ now - callTime > timeout

\* C8: on a descriptor that is never readable a call that passed validation
\* ends with TimeoutError; no TimeoutError is raised before the timeout has
\* elapsed and no select is still pending after it.
C8_TimeoutAtDeadline ==
    /\ ([](~Readable)) => (Entered ~> TimedOut)
    /\ [](TimedOut => now - callTime >= timeout)
    /\ [](pc = "select" => now - callTime <= timeout)
    /\ []((pc \in Finished /\ Entered /\ produced = 0 /\ ~eof) => TimedOut)

C8_Witness ==
    /\ TimedOut
    /\ err.line = 181
    /\ produced = 0
    /\ ~eof
    /\ now - callTime = timeout
    /\ callTime > 0

\* C9: every TimeoutError leaving the call reports bytes obtained and bytes
\* requested.
C9_TimeoutCarriesCounts ==
    TimedOut => (Len(err.msg) = 2 /\ err.msg[1] = Len(buf))

\* C10 as stated: with at least N bytes readable at the call, the call returns
\* the first N bytes after one poll and one read (read failures aside).
C10_ImmediateReturns ==
    (pc \in Finished /\ Entered /\ availAtCall >= size0
        /\ err.kind # "OSError") =>
        /\ pc = "returned"
        /\ result = SubSeq(stream, consumedAtCall + 1, consumedAtCall + size0)
        /\ polls = 1
        /\ reads = 1
        /\ consumed = consumedAtCall + size0

\* C10 amended: with at least N bytes readable at the call, the select never
\* waits, and unless the deadline had passed before the first poll or the
\* read failed, the call returns the first N bytes after one poll and one
\* read, consuming nothing beyond them.
C10_ImmediateUnlessPastDue ==
    (Entered /\ availAtCall >= size0) =>
        /\ polls <= 1
        /\ reads <= 1
        /\ pc = "select" => Readable
        /\ pc = "raised" => \/ err.kind = "OSError"
                            \/ (err.line = 118 /\ polls = 0 /\ reads = 0
                                /\ now - callTime > timeout)
        /\ pc = "returned" =>
              /\ result = SubSeq(stream, consumedAtCall + 1,
                                 consumedAtCall + size0)
              /\ polls = 1
              /\ reads = 1
              /\ consumed = consumedAtCall + size0

C10_Witness ==
    /\ pc = "returned"
    /\ availAtCall > size0
    /\ size0 >= 2
    /\ produced = availAtCall

\* C11: once os.read has failed, the call has raised that same OSError from
\* line 183, has returned nothing, and polls and reads no more.
C11_ReadErrorPropagates ==
    /\ [](lastRead = "error" =>
            /\ pc = "raised"
            /\ err = Exc("OSError", 183, <<readErr>>)
            /\ readErr \in OSErrnos
            /\ result = <<>>)
    /\ [][lastRead = "error" => (polls' = polls /\ reads' = reads)]_vars

C11_Witness ==
    /\ lastRead = "error"
    /\ pc = "raised"
    /\ Len(buf) > 0
    /\ reads >= 2
    /\ avail > 0

\* C15: a read happens only right after a select that reported readiness,
\* one read per readiness, asking for the argument minus the bytes already
\* accumulated; no more than the argument is ever consumed.
C15_OneReadPerReadiness ==
    /\ [](Entered =>
            /\ pc \in {"select", "read"} => polls = reads + 1
            /\ pc = "loop" => polls = reads
            /\ pc \in Finished => polls \in {reads, reads + 1}
            /\ consumed - consumedAtCall <= size0
            /\ lastRead \in {"data", "eof"} =>
                  /\ asked = size0 - (Len(buf) - Len(chunk))
                  /\ Len(chunk) <= asked)
    /\ [][reads' # reads =>
            /\ pc = "read"
            /\ reads' = reads + 1
            /\ asked' = size0 - Len(buf)
            /\ asked' >= 1]_vars

C15_Witness ==
    /\ reads = 2
    /\ lastRead = "data"
    /\ asked = 1
    /\ size0 = 2
    /\ avail > 0

\* C16: at every point of the loop the wanted count is the argument minus
\* the length of the buffer, it is never negative, and the assertion of line
\* 192 never fails.
C16_WantedInvariant ==
    Entered =>
        /\ size = size0 - Len(buf)
        /\ size >= 0
        /\ err.kind # "AssertionError"
        /\ pc \in {"loop", "select", "read"} => size >= 1

C16_Witness ==
    /\ pc = "loop"
    /\ reads = 2
    /\ size = 1
    /\ Len(buf) = 2

\* C19: the bound handed to every select is at least 0 and at most the
\* caller's timeout, and a past-due deadline raises instead of polling.
C19_PollBoundInRange ==
    /\ [][(pc = "loop" /\ pc' = "select")
            => (wake' - now >= 0 /\ wake' - now <= timeout)]_vars
    /\ [][(pc = "loop" /\ now - callTime > timeout /\ pc' # pc)
            => (pc' = "raised" /\ polls' = polls)]_vars
    /\ [](pc = "select" => (wake >= callTime /\ wake - callTime <= timeout))

C19_Witness ==
    /\ pc = "select"
    /\ polls = 2
    /\ wake = now
    /\ timeout = MaxTimeout

\* ---- properties of the Stopwatch on its own -------------------------------
\* the queried stopwatch had a timeout, had been started and not stopped
QRunning ==
    /\ ~IsNone(q.sw.timeout)
    /\ ~IsNone(q.sw.start_time)
    /\ IsNone(q.sw.end_time)
QElapsed == q.at - Val(q.sw.start_time)

\* C12 as stated: on a started, not stopped stopwatch with a timeout the
\* remaining query raises TimeoutError whenever elapsed >= timeout.
C12_RaisesAtTimeout ==
    (q.op = "remaining" /\ QRunning /\ QElapsed >= Val(q.sw.timeout)) =>
        (~q.ok /\ q.exc = "TimeoutError")

\* C12 amended: on a started, not stopped stopwatch with a timeout, remaining
\* is timeout - elapsed while elapsed <= timeout (0 at the instant they are
\* equal), strictly smaller at every later query, and TimeoutError once
\* elapsed > timeout.
C12_RaisesPastTimeout ==
    /\ []((q.op = "remaining" /\ QRunning) =>
            IF QElapsed > Val(q.sw.timeout)
            THEN ~q.ok /\ q.exc = "TimeoutError"
            ELSE q.ok /\ q.val = Val(q.sw.timeout) - QElapsed /\ q.val >= 0)
    /\ [][(/\ q.op = "remaining" /\ q'.op = "remaining"
           /\ QRunning /\ q'.sw = q.sw
           /\ q.ok /\ q'.ok
           /\ q'.at > q.at) => q'.val < q.val]_vars

C12_Witness ==
    /\ q.op = "remaining"
    /\ QRunning
    /\ QElapsed = Val(q.sw.timeout)
    /\ q.ok
    /\ q.val = 0
    /\ Val(q.sw.start_time) > 0

\* C13: once end_time has been set on a started stopwatch, every elapsed
\* query returns end_time - start_time, whatever the clock reads.
C13_ElapsedFrozen ==
    (q.op = "elapsed" /\ ~IsNone(q.sw.end_time) /\ ~IsNone(q.sw.start_time))
        => (q.ok /\ q.val = Val(q.sw.end_time) - Val(q.sw.start_time))

\* C14: an elapsed query on a stopwatch on which neither start() nor scope
\* entry was performed raises RuntimeError and returns no value, with or
\* without a timeout and whether or not stop() came before.
C14_ElapsedBeforeStart ==
    /\ (q.op = "elapsed" /\ ~q.started) => (~q.ok /\ q.exc = "RuntimeError")
    /\ ~started => (~elapsed(sw, now).ok /\ IsNone(sw.start_time))

C14_Witness ==
    /\ q.op = "elapsed"
    /\ ~q.started
    /\ ~q.ok
    /\ ~IsNone(q.sw.end_time)
    /\ ~IsNone(q.sw.timeout)
    /\ q.at > Val(q.sw.end_time)

\* C18: every elapsed query that returns a value returns a value >= 0.
C18_ElapsedNonNegative ==
    (q.op = "elapsed" /\ q.ok) => q.val >= 0

\* ---- properties of concurrent invocations ---------------------------------
\* C17: no step changes the locals, selector, stopwatch or descriptor of more
\* than one invocation; each selector holds only its own call's descriptor;
\* each stopwatch is the one its own call started, so each deadline is the
\* call's own start time + timeout; and each call ends as it does alone:
\* returning a prefix of its own stream (full size or end-of-stream), or
\* raising TimeoutError no earlier than its own deadline, or an OSError.
C17_Independent ==
    /\ [][\A i, j \in Threads :
            i # j => (inv'[i] = inv[i] \/ inv'[j] = inv[j])]_vars
    /\ [](\A i \in Threads :
            LET me == inv[i]
            IN /\ me.sel.fds \subseteq {i}
               /\ me.pc # "idle" =>
                     me.sw = start(Stopwatch(Some(me.timeout)), me.callTime)
               /\ me.pc = "select" => me.wake = me.callTime + me.timeout
               /\ me.pc = "returned" =>
                     /\ me.err = NoErr
                     /\ me.result = SubSeq(cstream(i), 1, me.consumed)
                     /\ Len(me.result) = me.size0 \/ me.eof
               /\ me.pc = "raised" =>
                     /\ me.err.kind \in {"TimeoutError", "OSError"}
                     /\ me.err.kind = "TimeoutError" =>
                           now - me.callTime >= me.timeout
                     /\ me.err.line = 181 =>
                           (me.produced = me.consumed /\ ~me.eof))

C17_Witness ==
    /\ inv[1].pc = "returned"
    /\ inv[2].pc = "raised"
    /\ inv[2].err.line = 181
    /\ Len(inv[2].buf) > 0
    /\ inv[1].callTime # inv[2].callTime
    /\ inv[1].result = <<<<1, 1>>>>

====
